---- MODULE Spec2Model ----
(***************************************************************************)
(* Model of patch/config/test-callout-fix.py: one run of the script, from   *)
(* interpreter start to process exit.  The file system and the import       *)
(* service are the environment: the outcome of open()/read(), the outcome   *)
(* of requests.post() and the response it returns are chosen                *)
(* nondeterministically.  JSON values are modelled by their Python type,    *)
(* because dict.get, `in`, `not` and iteration behave differently on each.  *)
(***************************************************************************)
EXTENDS Integers, Sequences, FiniteSets, TLC

VARIABLES
    pc,            \* the statement the run is at
    html_content,  \* line 20
    payload,       \* line 23
    response,      \* line 35
    result,        \* line 42
    validation,    \* line 50
    has_errors,    \* line 51
    ret,           \* the value test_callout_fix returned, line 80
    raised,        \* the exception that ended the run, if any
    exitCode,      \* the status the process ended with, -1 while it runs
    out,           \* the lines printed
    posts,         \* the request bodies handed to requests.post
    consumed,      \* the number of responses requests.post returned
    file_read,     \* whether open() and read() of the fixture succeeded
    steps          \* the statements executed so far, in order

vars == <<pc, html_content, payload, response, result, validation, has_errors,
          ret, raised, exitCode, out, posts, consumed, file_read, steps>>

----------------------------------------------------------------------------
(* Bounds of the environment *)

\* longest validation.errors list the service returns
MaxErrors == 1
\* HTTP statuses the service answers with: 200, another 2xx, a non-2xx
Statuses == {200, 201, 500}

\* contents of the fixture file
FixtureTexts == {"<html>"}

----------------------------------------------------------------------------
(* JSON values as Python sees them *)

Counters == {"tables", "images", "lists", "callouts"}

\* a scalar JSON value by Python type and truth value; "absent": no such key
Scalars == {"absent", "null", "false", "true", "str"}

\* bool(v) of a scalar
PyTruthy(v) == v \in {"true", "str"}

NoCounts == [c \in Counters |-> 0]

\* the value under "source"/"notion": key absent, JSON null, or an object
\* holding the counters `keys`, each with the value 2 (val is 0 outside keys)
CountsValues ==
    {[kind |-> "absent", keys |-> {}, val |-> NoCounts],
     [kind |-> "null", keys |-> {}, val |-> NoCounts]}
    \cup
    {[kind |-> "object", keys |-> K, val |-> [c \in Counters |-> IF c \in K THEN 2 ELSE 0]] :
        K \in SUBSET Counters}

\* the value under "errors": key absent, the number n, or a list of n entries
ErrorsValues ==
    {[kind |-> "absent", n |-> 0]}
    \cup {[kind |-> "number", n |-> n] : n \in 0..1}
    \cup {[kind |-> "list", n |-> n] : n \in 0..MaxErrors}

AbsentCounts == [kind |-> "absent", keys |-> {}, val |-> NoCounts]
AbsentErrors == [kind |-> "absent", n |-> 0]

\* the value under "validation": key absent, null, or an object
EmptyDict == [kind |-> "object", hasErrors |-> "absent", source |-> AbsentCounts,
              notion |-> AbsentCounts, errors |-> AbsentErrors]

ValidationValues ==
    {[EmptyDict EXCEPT !.kind = k] : k \in {"absent", "null"}}
    \cup
    [kind : {"object"}, hasErrors : Scalars, source : CountsValues,
     notion : CountsValues, errors : ErrorsValues]

AbsentValidation == [EmptyDict EXCEPT !.kind = "absent"]

\* a response body: not JSON, JSON that is no object (list, string, number,
\* null), or a JSON object with the keys the script reads
Bodies ==
    {[kind |-> k, success |-> "absent", validation |-> AbsentValidation] :
        k \in {"malformed", "nonobject"}}
    \cup
    [kind : {"object"}, success : {"absent", "false", "true"}, validation : ValidationValues]

Responses == [status_code : Statuses, body : Bodies]

----------------------------------------------------------------------------
(* Configuration, lines 9-12 *)

SERVER_URL == "http://localhost:3004"
DATABASE_ID == "282a89fedba5815e91f0db972912ef9f"
HTML_FILE == "performance-overview-2025-11-13T06-49-50.html"
\* line 27
PAGE_URL == "https://example.servicenow.com/performance-overview-2025-11-13T06-49-50.html"

----------------------------------------------------------------------------
(* Python semantics used by the script *)

\* d.get(key, default) for a scalar stored under key
DictGet(v, default) == IF v = "absent" THEN default ELSE v

\* `key in d`
HasKey(v) == v.kind # "absent"

\* x.get exists: x is a dict (a list, a string, a number, None have no .get)
HasGetAttr(v) == v.kind = "object"

\* variant: validation.get('hasErrors', False)
HasErrorsDefault_False == "false"

\* the default of validation.get('hasErrors', True)
HasErrorsDefault == "true"

\* the default of validation['source'].get(counter, 0)
CounterDefault == 0

\* validation['source'].get(c, 0)
CountsGet(counts, c) == IF c \in counts.keys THEN counts.val[c] ELSE CounterDefault

\* bool(validation['errors'])
ErrorsTruthy(e) == e.n # 0

\* `for error in validation['errors']` needs an iterable; an int is not
Iterable(e) == e.kind = "list"

\* the order in which the counters are printed
CounterOrder == <<"tables", "images", "lists", "callouts">>

\* one printed line
Line(tag, key, n) == [tag |-> tag, key |-> key, n |-> n]

\* the four lines printed for one counts object
CountLines(tag, counts) ==
    [i \in 1..Len(CounterOrder) |-> Line(tag, CounterOrder[i], CountsGet(counts, CounterOrder[i]))]

\* the lines printed by the loop over validation['errors']
ErrorLines(e) == [i \in 1..e.n |-> Line("error", "", i)]

----------------------------------------------------------------------------
(* State before the first statement *)

NoBody == [kind |-> "unset", success |-> "absent", validation |-> AbsentValidation]
NoResponse == [status_code |-> 0, body |-> NoBody]
NoValidation == [EmptyDict EXCEPT !.kind = "unset"]
NoPayload == [title |-> "", databaseId |-> "", contentHtml |-> "", url |-> ""]

Init ==
    /\ pc = "start"
    /\ html_content = ""
    /\ payload = NoPayload
    /\ response = NoResponse
    /\ result = NoBody
    /\ validation = NoValidation
    /\ has_errors = "unset"
    /\ ret = "unset"
    /\ raised = "none"
    /\ exitCode = -1
    /\ out = <<>>
    /\ posts = <<>>
    /\ consumed = 0
    /\ file_read = FALSE
    /\ steps = <<>>

\* an exception nobody catches: the interpreter prints the traceback and the
\* process ends with status 1
Raise(exc, step) ==
    /\ raised' = exc
    /\ pc' = "exit"
    /\ exitCode' = 1
    /\ steps' = Append(steps, step)

\* `return value` from test_callout_fix to line 80
Return(value, step) ==
    /\ ret' = value
    /\ pc' = "main"
    /\ steps' = Append(steps, step)

\* fall through to the next statement
Goto(next, step) ==
    /\ pc' = next
    /\ steps' = Append(steps, step)

----------------------------------------------------------------------------
(* The statements of test_callout_fix *)

\* line 16
Start ==
    /\ pc = "start"
    /\ out' = Append(out, Line("testing", HTML_FILE, 0))
    /\ Goto("read", "start")
    /\ UNCHANGED <<html_content, payload, response, result, validation,
                   has_errors, ret, raised, exitCode, posts, consumed, file_read>>

\* lines 19-20, the file is read
ReadFixture ==
    /\ pc = "read"
    /\ \E text \in FixtureTexts : html_content' = text
    /\ file_read' = TRUE
    /\ Goto("post", "read")
    /\ UNCHANGED <<payload, response, result, validation, has_errors, ret,
                   raised, exitCode, out, posts, consumed>>

\* variant: the read is wrapped in try/except and the run goes on with no content
ReadFixtureRaises_Swallowed ==
    /\ pc = "read"
    /\ html_content' = ""
    /\ Goto("post", "read")
    /\ UNCHANGED <<payload, response, result, validation, has_errors, ret,
                   raised, exitCode, out, posts, consumed, file_read>>

\* lines 19-20, open() or read() raises (no such file, no permission, not UTF-8)
ReadFixtureRaises ==
    /\ pc = "read"
    /\ Raise("OSError", "read")
    /\ UNCHANGED <<html_content, payload, response, result, validation,
                   has_errors, ret, out, posts, consumed, file_read>>

\* lines 23-32
BuildPayload ==
    [title |-> "Performance Overview (TEST FIX v3)", databaseId |-> DATABASE_ID,
     contentHtml |-> html_content, url |-> PAGE_URL]

\* lines 23-35, the service answers
Post ==
    /\ pc = "post"
    /\ payload' = BuildPayload
    /\ out' = Append(out, Line("creating", "", 0))
    /\ posts' = Append(posts, payload')
    /\ \E r \in Responses : response' = r
    /\ consumed' = consumed + 1
    /\ Goto("status", "post")
    /\ UNCHANGED <<html_content, result, validation, has_errors, ret, raised,
                   exitCode, file_read>>

\* variant: a failed post is tried again
PostRaises_Retry ==
    /\ pc = "post"
    /\ payload' = BuildPayload
    /\ out' = Append(out, Line("creating", "", 0))
    /\ posts' = Append(posts, payload')
    /\ Goto("post", "post")
    /\ UNCHANGED <<html_content, response, result, validation, has_errors, ret,
                   raised, exitCode, consumed, file_read>>

\* lines 23-35, requests.post raises (timeout after 120 s, connection refused)
PostRaises ==
    /\ pc = "post"
    /\ payload' = BuildPayload
    /\ out' = Append(out, Line("creating", "", 0))
    /\ posts' = Append(posts, payload')
    /\ Raise("RequestException", "post")
    /\ UNCHANGED <<html_content, response, result, validation, has_errors, ret,
                   consumed, file_read>>

\* variant: only statuses above 500 are errors
StatusIsError_Above500(r) == r.status_code > 500

\* line 37
StatusIsError(r) == r.status_code # 200

\* lines 37-40
StatusError ==
    /\ pc = "status"
    /\ StatusIsError(response)
    /\ out' = out \o <<Line("http_error", "", response.status_code), Line("text", "", 0)>>
    /\ Return("False", "status")
    /\ UNCHANGED <<html_content, payload, response, result, validation, has_errors,
                   raised, exitCode, posts, consumed, file_read>>

\* line 37, the status is 200
StatusOk ==
    /\ pc = "status"
    /\ ~StatusIsError(response)
    /\ Goto("json", "status")
    /\ UNCHANGED <<html_content, payload, response, result, validation, has_errors,
                   ret, raised, exitCode, out, posts, consumed, file_read>>

\* line 42
ParseJson ==
    /\ pc = "json"
    /\ response.body.kind # "malformed"
    /\ result' = response.body
    /\ Goto("success", "json")
    /\ UNCHANGED <<html_content, payload, response, validation, has_errors,
                   ret, raised, exitCode, out, posts, consumed, file_read>>

\* variant: a body that is no JSON makes the run post again
ParseJsonRaises_Retry ==
    /\ pc = "json"
    /\ response.body.kind = "malformed"
    /\ Goto("post", "json")
    /\ UNCHANGED <<html_content, payload, response, result, validation, has_errors,
                   ret, raised, exitCode, out, posts, consumed, file_read>>

\* line 42, the body is no JSON
ParseJsonRaises ==
    /\ pc = "json"
    /\ response.body.kind = "malformed"
    /\ Raise("JSONDecodeError", "json")
    /\ UNCHANGED <<html_content, payload, response, result, validation, has_errors,
                   ret, out, posts, consumed, file_read>>

\* variant: `'success' not in result`
SuccessIsFalse_KeyMissing(r) == r.success = "absent"

\* line 44: `not result.get('success')`
SuccessIsFalse(r) == ~PyTruthy(DictGet(r.success, "null"))

\* line 44, result is no dict
SuccessRaises ==
    /\ pc = "success"
    /\ ~HasGetAttr(result)
    /\ Raise("AttributeError", "success")
    /\ UNCHANGED <<html_content, payload, response, result, validation, has_errors,
                   ret, out, posts, consumed, file_read>>

\* lines 44-47
SuccessFalse ==
    /\ pc = "success"
    /\ HasGetAttr(result)
    /\ SuccessIsFalse(result)
    /\ out' = out \o <<Line("creation_failed", "", 0), Line("result", "", 0)>>
    /\ Return("False", "success")
    /\ UNCHANGED <<html_content, payload, response, result, validation, has_errors,
                   raised, exitCode, posts, consumed, file_read>>

\* line 44, success is true
SuccessTrue ==
    /\ pc = "success"
    /\ HasGetAttr(result)
    /\ ~SuccessIsFalse(result)
    /\ Goto("validation", "success")
    /\ UNCHANGED <<html_content, payload, response, result, validation, has_errors,
                   ret, raised, exitCode, out, posts, consumed, file_read>>

\* line 50: result.get('validation', {})
GetValidation(r) == IF HasKey(r.validation) THEN r.validation ELSE EmptyDict

\* lines 49-56
ReadValidation ==
    /\ pc = "validation"
    /\ HasGetAttr(GetValidation(result))
    /\ validation' = GetValidation(result)
    /\ has_errors' = DictGet(validation'.hasErrors, HasErrorsDefault)
    /\ out' = out \o <<Line("created", "", 0), Line("url", "", 0),
                        Line("has_errors", has_errors', 0)>>
    /\ Goto("source", "validation")
    /\ UNCHANGED <<html_content, payload, response, result, ret, raised, exitCode,
                   posts, consumed, file_read>>

\* line 51, validation is no dict
ReadValidationRaises ==
    /\ pc = "validation"
    /\ ~HasGetAttr(GetValidation(result))
    /\ validation' = GetValidation(result)
    /\ Raise("AttributeError", "validation")
    /\ UNCHANGED <<html_content, payload, response, result, has_errors, ret, out,
                   posts, consumed, file_read>>

\* variant: validation['source'][counter], which raises on a missing counter
CountsRaise_KeyError(counts) == ~HasGetAttr(counts) \/ counts.keys # Counters

\* lines 60-63 and 67-70: the four .get calls raise when the value is no dict
CountsRaise(counts) == ~HasGetAttr(counts)

\* line 58, no 'source' in validation
SourceAbsent ==
    /\ pc = "source"
    /\ ~HasKey(validation.source)
    /\ Goto("notion", "source")
    /\ UNCHANGED <<html_content, payload, response, result, validation, has_errors,
                   ret, raised, exitCode, out, posts, consumed, file_read>>

\* lines 58-63
PrintSource ==
    /\ pc = "source"
    /\ HasKey(validation.source)
    /\ ~CountsRaise(validation.source)
    /\ out' = out \o <<Line("source_counts", "", 0)>> \o CountLines("source", validation.source)
    /\ Goto("notion", "source")
    /\ UNCHANGED <<html_content, payload, response, result, validation, has_errors,
                   ret, raised, exitCode, posts, consumed, file_read>>

\* lines 58-60, validation['source'] is no dict
PrintSourceRaises ==
    /\ pc = "source"
    /\ HasKey(validation.source)
    /\ CountsRaise(validation.source)
    /\ out' = Append(out, Line("source_counts", "", 0))
    /\ Raise("AttributeError", "source")
    /\ UNCHANGED <<html_content, payload, response, result, validation, has_errors,
                   ret, posts, consumed, file_read>>

\* line 65, no 'notion' in validation
NotionAbsent ==
    /\ pc = "notion"
    /\ ~HasKey(validation.notion)
    /\ Goto("errors", "notion")
    /\ UNCHANGED <<html_content, payload, response, result, validation, has_errors,
                   ret, raised, exitCode, out, posts, consumed, file_read>>

\* lines 65-70
PrintNotion ==
    /\ pc = "notion"
    /\ HasKey(validation.notion)
    /\ ~CountsRaise(validation.notion)
    /\ out' = out \o <<Line("notion_counts", "", 0)>> \o CountLines("notion", validation.notion)
    /\ Goto("errors", "notion")
    /\ UNCHANGED <<html_content, payload, response, result, validation, has_errors,
                   ret, raised, exitCode, posts, consumed, file_read>>

\* lines 65-67, validation['notion'] is no dict
PrintNotionRaises ==
    /\ pc = "notion"
    /\ HasKey(validation.notion)
    /\ CountsRaise(validation.notion)
    /\ out' = Append(out, Line("notion_counts", "", 0))
    /\ Raise("AttributeError", "notion")
    /\ UNCHANGED <<html_content, payload, response, result, validation, has_errors,
                   ret, posts, consumed, file_read>>

\* line 72: 'errors' in validation and validation['errors']
HasErrorsToPrint(v) == HasKey(v.errors) /\ ErrorsTruthy(v.errors)

\* line 72, nothing to print
ErrorsSkipped ==
    /\ pc = "errors"
    /\ ~HasErrorsToPrint(validation)
    /\ Goto("return", "errors")
    /\ UNCHANGED <<html_content, payload, response, result, validation, has_errors,
                   ret, raised, exitCode, out, posts, consumed, file_read>>

\* variant: a non-empty errors list fails the run
PrintErrors_Aborts ==
    /\ pc = "errors"
    /\ HasErrorsToPrint(validation)
    /\ Iterable(validation.errors)
    /\ out' = out \o <<Line("errors", "", 0)>> \o ErrorLines(validation.errors)
    /\ Return("False", "errors")
    /\ UNCHANGED <<html_content, payload, response, result, validation, has_errors,
                   raised, exitCode, posts, consumed, file_read>>

\* lines 72-75
PrintErrors ==
    /\ pc = "errors"
    /\ HasErrorsToPrint(validation)
    /\ Iterable(validation.errors)
    /\ out' = out \o <<Line("errors", "", 0)>> \o ErrorLines(validation.errors)
    /\ Goto("return", "errors")
    /\ UNCHANGED <<html_content, payload, response, result, validation, has_errors,
                   ret, raised, exitCode, posts, consumed, file_read>>

\* lines 72-74, validation['errors'] cannot be iterated
PrintErrorsRaises ==
    /\ pc = "errors"
    /\ HasErrorsToPrint(validation)
    /\ ~Iterable(validation.errors)
    /\ out' = Append(out, Line("errors", "", 0))
    /\ Raise("TypeError", "errors")
    /\ UNCHANGED <<html_content, payload, response, result, validation, has_errors,
                   ret, posts, consumed, file_read>>

\* line 77: not has_errors
ReturnValue(h) == IF PyTruthy(h) THEN "False" ELSE "True"

\* line 77
ReturnNotHasErrors ==
    /\ pc = "return"
    /\ Return(ReturnValue(has_errors), "return")
    /\ UNCHANGED <<html_content, payload, response, result, validation, has_errors,
                   raised, exitCode, out, posts, consumed, file_read>>

\* line 81: 0 if success else 1
ExitStatus(success) == IF success = "True" THEN 0 ELSE 1

\* lines 80-81
Exit ==
    /\ pc = "main"
    /\ exitCode' = ExitStatus(ret)
    /\ Goto("exit", "main")
    /\ UNCHANGED <<html_content, payload, response, result, validation, has_errors,
                   ret, raised, out, posts, consumed, file_read>>

Next ==
    \/ Start
    \/ ReadFixture
    \/ ReadFixtureRaises
    \/ Post
    \/ PostRaises
    \/ StatusError
    \/ StatusOk
    \/ ParseJson
    \/ ParseJsonRaises
    \/ SuccessRaises
    \/ SuccessFalse
    \/ SuccessTrue
    \/ ReadValidation
    \/ ReadValidationRaises
    \/ SourceAbsent
    \/ PrintSource
    \/ PrintSourceRaises
    \/ NotionAbsent
    \/ PrintNotion
    \/ PrintNotionRaises
    \/ ErrorsSkipped
    \/ PrintErrors
    \/ PrintErrorsRaises
    \/ ReturnNotHasErrors
    \/ Exit

Spec == Init /\ [][Next]_vars

TypeOK ==
    /\ pc \in {"start", "read", "post", "status", "json", "success", "validation",
               "source", "notion", "errors", "return", "main", "exit"}
    /\ exitCode \in {-1, 0, 1}
    /\ ret \in {"unset", "True", "False"}
    /\ consumed \in 0..1
    /\ file_read \in BOOLEAN

----------------------------------------------------------------------------
(* Vocabulary of the properties *)

Done == pc = "exit"

\* the statement `step` was executed
Ran(step) == \E i \in 1..Len(steps) : steps[i] = step

\* the response as the service sent it
Body == response.body
V == response.body.validation

\* requests.post returned a response with status 200 and a JSON object
\* whose success is true
Created ==
    /\ consumed = 1
    /\ response.status_code = 200
    /\ Body.kind = "object"
    /\ Body.success = "true"

\* source and notion are each absent or a counts object, errors is absent or a list
WellFormedReport(v) ==
    /\ v.kind = "object"
    /\ v.source.kind \in {"absent", "object"}
    /\ v.notion.kind \in {"absent", "object"}
    /\ v.errors.kind \in {"absent", "list"}

\* the last n lines printed
LastLines(n) == SubSeq(out, Len(out) - n + 1, Len(out))

\* the counter lines printed under `tag`
Printed(tag) == SelectSeq(out, LAMBDA l : l.tag = tag)

----------------------------------------------------------------------------
(* C1: when the fixture is read, the status is 200, success is true and
   validation.hasErrors is a boolean, the exit code is 0 iff hasErrors is
   false, whatever the other fields of the response are. *)
C1_ExitIffNoErrors ==
    (Done /\ file_read /\ Created /\ V.kind = "object" /\ V.hasErrors \in {"true", "false"})
        => (exitCode = 0 <=> V.hasErrors = "false")

(* C2: a 200 response with success = false exits 1 whatever validation it
   carries, and validation is never inspected on the way. *)
C2_SuccessFalseFails ==
    (consumed = 1 /\ response.status_code = 200 /\ Body.kind = "object"
     /\ Body.success = "false")
        => /\ ~Ran("validation")
           /\ validation = NoValidation
           /\ has_errors = "unset"
           /\ exitCode # 0
           /\ Done => exitCode = 1

C2_Witness ==
    /\ Done
    /\ response.status_code = 200
    /\ Body.kind = "object"
    /\ Body.success = "false"
    /\ V.kind = "object"
    /\ V.hasErrors = "false"
    /\ exitCode = 1

(* C3: a 200 response with success = true whose validation is absent, or
   has no hasErrors, has hasErrors taken as true and exits 1, never 0. *)
C3_MissingHasErrorsFails ==
    (Created /\ (V.kind = "absent" \/ (V.kind = "object" /\ V.hasErrors = "absent")))
        => /\ exitCode # 0
           /\ Ran("validation") => has_errors = "true"
           /\ Ran("return") => ret = "False"
           /\ Done => exitCode = 1

C3_Witness ==
    /\ Done
    /\ Created
    /\ V.kind = "absent"
    /\ Ran("return")
    /\ exitCode = 1

(* C4: a response whose status is not 2xx ends in exit code 1 after the
   status code and the body were printed, and neither the JSON parse nor
   the reading of validation is executed. *)
C4_Non2xxShortCircuits ==
    (consumed = 1 /\ response.status_code \notin 200..299)
        => /\ ~Ran("json")
           /\ ~Ran("validation")
           /\ result = NoBody
           /\ exitCode # 0
           /\ pc \in {"status", "main", "exit"}
           /\ pc \in {"main", "exit"} =>
                LastLines(2) = <<Line("http_error", "", response.status_code),
                                 Line("text", "", 0)>>
           /\ Done => exitCode = 1

C4_Witness ==
    /\ Done
    /\ response.status_code = 500
    /\ Body.kind = "object"
    /\ Body.success = "true"
    /\ V.hasErrors = "false"
    /\ exitCode = 1

(* C5: when reading the fixture fails the run ends with a non-zero exit
   code and no request is sent: a request sent implies the fixture was read. *)
C5_NoRequestWithoutFixture ==
    /\ posts # <<>> => file_read
    /\ posts # <<>> => posts[1].contentHtml = html_content
    /\ (Ran("read") /\ ~file_read) =>
            (pc = "exit" /\ exitCode = 1 /\ posts = <<>> /\ consumed = 0)

C5_Witness ==
    /\ Done
    /\ raised = "OSError"
    /\ ~file_read

(* C6: in every run at most one POST is issued and at most one response is
   consumed; a transport failure ends the run in failure, without a second
   request. *)
C6_AtMostOneRequest ==
    /\ Len(posts) <= 1
    /\ consumed <= Len(posts)
    /\ raised = "RequestException" =>
            (pc = "exit" /\ exitCode = 1 /\ Len(posts) = 1 /\ consumed = 0)

C6_Witness ==
    /\ Done
    /\ raised = "RequestException"
    /\ Len(posts) = 1

(* C7: for 200 responses with success = true the exit code is a function of
   validation.hasErrors alone (0 when it is present and falsy, 1 otherwise),
   whatever the errors list (absent, empty, non-empty) and the counts
   objects are; a non-empty errors list with hasErrors = false exits 0 and
   the errors list never ends the run. *)
C7_ExitDependsOnHasErrorsOnly ==
    (Created /\ WellFormedReport(V))
        => /\ raised = "none"
           /\ Ran("errors") => pc \in {"return", "main", "exit"}
           /\ Done => /\ Ran("return")
                       /\ exitCode = IF V.hasErrors \in {"false", "null"} THEN 0 ELSE 1

C7_Witness ==
    /\ Done
    /\ Created
    /\ WellFormedReport(V)
    /\ V.hasErrors = "false"
    /\ V.errors.kind = "list"
    /\ V.errors.n > 0
    /\ V.source.kind = "object"
    /\ Len(Printed("error")) = V.errors.n
    /\ exitCode = 0

(* C8: when a source or notion counts object is present, every counter
   missing from it is printed as 0, and no set of missing counters makes
   the run raise: the run reaches `return not has_errors` and exits with
   the code hasErrors determines. *)
C8_MissingCountersDefault ==
    /\ \A tag \in {"source", "notion"} :
          (Ran(tag) /\ validation[tag].kind = "object") =>
             /\ ~(raised # "none" /\ steps[Len(steps)] = tag)
             /\ Len(Printed(tag)) = 4
             /\ \A i \in 1..4 :
                   /\ Printed(tag)[i].key = CounterOrder[i]
                   /\ Printed(tag)[i].n =
                        IF CounterOrder[i] \in validation[tag].keys
                        THEN validation[tag].val[CounterOrder[i]] ELSE 0
    /\ (Done /\ Created /\ WellFormedReport(V)
         /\ "object" \in {V.source.kind, V.notion.kind})
            => /\ raised = "none"
               /\ Ran("return")
               /\ has_errors = (IF V.hasErrors = "absent" THEN "true" ELSE V.hasErrors)
               /\ ret = (IF has_errors \in {"false", "null"} THEN "True" ELSE "False")
               /\ exitCode = (IF ret = "True" THEN 0 ELSE 1)

C8_Witness ==
    /\ Done
    /\ Created
    /\ V.kind = "object"
    /\ V.source.kind = "object"
    /\ V.source.keys = {"tables"}
    /\ V.notion.kind = "object"
    /\ V.notion.keys = {}
    /\ V.hasErrors = "false"
    /\ Ran("return")
    /\ exitCode = 0

\* the stage of the run a statement belongs to: Start, Load fixture, Send
\* request, Interpret response, Exit
Stage(p) ==
    CASE p = "start" -> 0
      [] p = "read" -> 1
      [] p = "post" -> 2
      [] p \in {"status", "json", "success", "validation", "source", "notion",
                "errors", "return"} -> 3
      [] p \in {"main", "exit"} -> 4

\* the position of a statement in the text
Position(p) ==
    CASE p = "start" -> 0
      [] p = "read" -> 1
      [] p = "post" -> 2
      [] p = "status" -> 3
      [] p = "json" -> 4
      [] p = "success" -> 5
      [] p = "validation" -> 6
      [] p = "source" -> 7
      [] p = "notion" -> 8
      [] p = "errors" -> 9
      [] p = "return" -> 10
      [] p = "main" -> 11
      [] p = "exit" -> 12

C9_Step ==
    /\ pc # "exit"
    /\ Stage(pc') >= Stage(pc)
    /\ Stage(pc') <= Stage(pc) + 1 \/ Stage(pc') = 4
    /\ Position(pc') > Position(pc)
    /\ raised = "none"
    /\ raised' # "none" => (pc' = "exit" /\ exitCode' = 1)
    /\ (ret = "unset" /\ ret' = "False") => pc' = "main"
    /\ (pc = "main" /\ ret = "False") => (pc' = "exit" /\ exitCode' = 1)

(* C9: the stages run only in the order Start, Load fixture, Send request,
   Interpret response, Exit; none is entered twice or re-entered; a failure
   (file error, transport error, non-200 status, JSON decode error,
   success = false) leads straight to the terminal state with exit code 1,
   from which nothing runs. *)
C9_StagesInOrder == [][C9_Step]_vars

C9_Witness ==
    /\ Done
    /\ raised = "JSONDecodeError"
    /\ exitCode = 1
    /\ steps = <<"start", "read", "post", "status", "json">>

(* C10: a run exits 0 only if the fixture was read, the status was 200,
   success was true and validation.hasErrors is present and the boolean
   false; every other response exits 1. *)
C10_ExitZeroOnlyIfHasErrorsFalse ==
    Done => /\ exitCode \in {0, 1}
            /\ exitCode = 0 =>
                 /\ file_read
                 /\ Created
                 /\ V.kind = "object"
                 /\ V.hasErrors = "false"

====
